---- MODULE Spec2Model ----
(***************************************************************************)
(* Model of python/executor.py: the Executor asset execution pipeline.     *)
(* The parent process walks run() statement by statement; the fifo-mode    *)
(* producer processes and the backgrounded "cp ... &" shell commands are   *)
(* separate actions that interleave freely with the parent.                *)
(***************************************************************************)
EXTENDS Integers, Sequences, FiniteSets, TLC

\* ------------------------------------------------------------------------
\* Bounds of the model
\* ------------------------------------------------------------------------
MaxAssets == 2    \* longest batch handed to an Executor
MaxRuns == 2      \* run() calls observed over one log directory

\* ------------------------------------------------------------------------
\* Values
\* ------------------------------------------------------------------------
Absent == "absent"
NoFile == [exists |-> FALSE, content |-> <<>>]
File(content) == [exists |-> TRUE, content |-> content]
Types == {"T"}
Versions == {"v1", "v2"}
LogFileDir == "log_file_dir"

\* An asset as the Executor reads it: identity triple, the three
\* width/height pairs, source paths and the two derived workfile paths.
Asset(cid, aid, qwh, rwh, dwh, rsrc, dsrc, rdir, ddir) ==
    [dataset |-> "d", content_id |-> cid, asset_id |-> aid,
     quality_width_height |-> qwh, ref_width_height |-> rwh,
     dis_width_height |-> dwh,
     ref_path |-> rsrc, dis_path |-> dsrc,
     ref_workfile_path |-> <<"work", rdir, "ref">>,
     dis_workfile_path |-> <<"work", ddir, "dis">>]

\* Source media the assets name.
SourceFiles == {"r0", "d0", "r1", "d1", "r2", "d2"}

\* shared workdir, everything fine
AssetShared == Asset(0, 0, <<2, 2>>, <<2, 2>>, <<2, 2>>, "r0", "d0", "w0", "w0")
\* ref and dis workfiles in different directories
AssetSplit == Asset(0, 1, <<2, 2>>, <<2, 2>>, <<2, 2>>, "r1", "d1", "w1r", "w1d")
\* distorted width/height disagrees with the other two
AssetBadShape == Asset(1, 0, <<2, 2>>, <<2, 2>>, <<1, 2>>, "r2", "d2", "w2", "w2")

Catalog == {AssetShared, AssetSplit, AssetBadShape}

Batches == UNION {[1..n -> Catalog] : n \in 1..MaxAssets}

WorkPaths == {a.ref_workfile_path : a \in Catalog}
                 \cup {a.dis_workfile_path : a \in Catalog}

\* source path copied to a given workfile path
SrcOf(p) ==
    LET a == CHOOSE c \in Catalog :
                 p \in {c.ref_workfile_path, c.dis_workfile_path}
    IN IF p = a.ref_workfile_path THEN a.ref_path ELSE a.dis_path

VARIABLES
    assets, TYPE, VERSION, fifo_mode, delete_workdir, results,  \* Executor fields
    pc, idx, acc, exc,          \* parent control state
    logs, wf, dirs, srcs,       \* file system
    pend,                       \* producer processes / background copies
    runNo, prev,                \* run history
    stagings, headerWrites, invocations,   \* collaborator-call counters
    ops, cache, stagingFailed,             \* per-asset history
    cpc, cexc                   \* callers of the unstaging functions

vars == <<assets, TYPE, VERSION, fifo_mode, delete_workdir, results,
          pc, idx, acc, exc, logs, wf, dirs, srcs, pend, runNo, prev,
          stagings, headerWrites, invocations, ops, cache, stagingFailed, cpc, cexc>>

\* ------------------------------------------------------------------------
\* Pure helpers
\* ------------------------------------------------------------------------
\* str(asset): encodes the identity triple
asset_str(asset) == <<asset.dataset, asset.content_id, asset.asset_id>>

get_log_file_path(dir, type, version, asset) == <<dir, type, asset_str(asset)>>

LogPathOf(asset) == get_log_file_path(LogFileDir, TYPE, VERSION, asset)

get_dir_without_last_slash(path) == SubSeq(path, 1, Len(path) - 1)

LogPaths == {get_log_file_path(LogFileDir, t, v, a) :
                 t \in Types, v \in Versions, a \in Catalog}

\* "{type} VERSION {version}\n\n"
Header(type, version) == <<<<type, "VERSION", version>>, <<>>>>

\* content of a log left by an earlier, finished execution
OldLog == Header("T", "v1") \o <<<<"score">>>>

isfile(path) == logs[path].exists

exists(path) == wf[path] # Absent

DirEmpty(d) == \A p \in WorkPaths :
                   get_dir_without_last_slash(p) = d => wf[p] = Absent

assert_assets_weak(batch) ==
    LET list == [i \in 1..Len(batch) |->
                     <<batch[i].dataset, batch[i].content_id, batch[i].asset_id>>]
    IN Len(list) >= Cardinality({list[i] : i \in 1..Len(list)})

assert_assets(batch) ==
    LET list == [i \in 1..Len(batch) |->
                     <<batch[i].dataset, batch[i].content_id, batch[i].asset_id>>]
    IN Len(list) = Cardinality({list[i] : i \in 1..Len(list)})

assert_an_asset_partial(asset) ==
    asset.quality_width_height = asset.ref_width_height

assert_an_asset(asset) ==
    /\ asset.quality_width_height = asset.ref_width_height
    /\ asset.ref_width_height = asset.dis_width_height

read_result(asset) ==
    [asset |-> asset_str(asset), log |-> logs[LogPathOf(asset)]]

\* ------------------------------------------------------------------------
\* Initial states: the fields set by __init__, before _assert_assets()
\* ------------------------------------------------------------------------
NoPending == [p \in WorkPaths |-> [mk |-> 0, cp |-> 0]]

FreshHistory(batch) ==
    /\ ops = [i \in 1..Len(batch) |-> {}]
    /\ cache = [i \in 1..Len(batch) |-> [state |-> "unchecked", content |-> <<>>]]

Init ==
    /\ assets \in Batches
    /\ TYPE \in Types
    /\ VERSION = "v1"
    /\ fifo_mode \in BOOLEAN
    /\ delete_workdir \in BOOLEAN
    /\ results = <<>>
    /\ pc = "init_assert" /\ idx = 0 /\ acc = <<>> /\ exc = "none"
    /\ \E cached \in SUBSET {LogPathOf(assets[i]) : i \in 1..Len(assets)} :
           /\ logs = [p \in LogPaths |->
                          IF p \in cached THEN File(OldLog) ELSE NoFile]
           /\ dirs = {get_dir_without_last_slash(q) : q \in cached}
    /\ wf = [q \in WorkPaths |-> Absent]
    \* all source media present, or one reference source missing
    /\ srcs \in {SourceFiles, SourceFiles \ {AssetShared.ref_path}}
    /\ pend = NoPending
    /\ runNo = 0
    /\ prev = [completed |-> FALSE, type |-> TYPE, version |-> VERSION,
               invocations |-> 0, exc |-> "none", idx |-> 0]
    /\ stagings = 0 /\ headerWrites = 0 /\ invocations = 0
    /\ FreshHistory(assets)
    /\ stagingFailed = {}
    /\ cpc = <<>> /\ cexc = <<>>

fsVars == <<logs, wf, dirs, srcs>>
cfgVars == <<assets, TYPE, VERSION, fifo_mode, delete_workdir, cpc, cexc>>
cntVars == <<stagings, headerWrites, invocations>>

\* ------------------------------------------------------------------------
\* __init__ (lines 20-36) and construction of a further Executor
\* ------------------------------------------------------------------------
AssertAssets ==
    /\ pc = "init_assert"
    /\ IF assert_assets(assets)
       THEN pc' = "ready" /\ exc' = "none"
       ELSE pc' = "rejected" /\ exc' = "AssertionError"
    /\ UNCHANGED <<cfgVars, results, idx, acc, fsVars, pend, runNo, prev,
                   cntVars, ops, cache, stagingFailed>>

\* a new Executor of the same TYPE over the same assets and log directory
NewExecutor ==
    /\ pc \in {"done", "raised"}
    /\ runNo < MaxRuns
    /\ \E v \in Versions : VERSION' = v
    /\ results' = <<>>
    /\ pc' = "init_assert" /\ exc' = "none"
    /\ prev' = [completed |-> pc = "done", type |-> TYPE, version |-> VERSION,
                invocations |-> invocations, exc |-> exc, idx |-> idx]
    /\ UNCHANGED <<assets, TYPE, fifo_mode, delete_workdir, cpc, cexc, idx, acc, fsVars,
                   pend, runNo, cntVars, ops, cache, stagingFailed>>

\* ------------------------------------------------------------------------
\* run() (lines 42-59)
\* ------------------------------------------------------------------------
Run ==
    /\ pc = "ready"
    /\ runNo < MaxRuns
    /\ runNo' = runNo + 1
    /\ prev' = prev
    /\ stagings' = 0 /\ headerWrites' = 0 /\ invocations' = 0
    /\ ops' = [i \in 1..Len(assets) |-> {}]
    /\ cache' = [i \in 1..Len(assets) |->
                     [state |-> "unchecked", content |-> <<>>]]
    /\ stagingFailed' = {}
    /\ pc' = "assert" /\ idx' = 1 /\ acc' = <<>> /\ exc' = "none"
    /\ UNCHANGED <<cfgVars, results, fsVars, pend>>

\* control after the wrapper returns for asset idx: next asset of the first
\* map, or the second map
ReturnEarly == pc' = "read" /\ idx' = 1

Return ==
    IF idx < Len(assets)
    THEN pc' = "assert" /\ idx' = idx + 1
    ELSE pc' = "read" /\ idx' = 1

Did(op) == ops' = [ops EXCEPT ![idx] = @ \cup {op}]

\* ------------------------------------------------------------------------
\* _run_and_generate_log_file_wrapper (lines 100-154)
\* ------------------------------------------------------------------------
AssertAnAsset ==
    /\ pc = "assert"
    /\ IF assert_an_asset(assets[idx])
       THEN pc' = "isfile" /\ exc' = exc
       ELSE pc' = "raised" /\ exc' = "AssertionError"
    /\ UNCHANGED <<cfgVars, results, idx, acc, fsVars, pend, runNo, prev,
                   cntVars, ops, cache, stagingFailed>>

CacheHitInverted(path) == ~isfile(path)

CacheHitNever(path) == FALSE

CacheHit(path) == isfile(path)

IsFile ==
    /\ pc = "isfile"
    /\ LET path == LogPathOf(assets[idx]) IN
       /\ cache' = [cache EXCEPT ![idx] =
                        [state |-> IF isfile(path) THEN "hit" ELSE "miss",
                         content |-> logs[path].content]]
       /\ IF CacheHit(path)
          THEN Return
          ELSE pc' = "close_ref_pre" /\ idx' = idx
    /\ UNCHANGED <<cfgVars, results, acc, exc, fsVars, pend, runNo, prev,
                   cntVars, ops, stagingFailed>>

\* _close_ref_workfile / _close_dis_workfile (lines 212-222), run by one
\* process without interference
close_workfile(path) ==
    IF exists(path) THEN [wf EXCEPT ![path] = Absent] ELSE wf

Close(at, path, next) ==
    /\ pc = at
    /\ wf' = close_workfile(path)
    /\ Did(at)
    /\ pc' = next
    /\ UNCHANGED <<cfgVars, results, idx, acc, exc, logs, dirs, srcs, pend, runNo,
                   prev, cntVars, cache, stagingFailed>>

CloseRefPre == Close("close_ref_pre", assets[idx].ref_workfile_path, "close_dis_pre")
CloseDisPre == Close("close_dis_pre", assets[idx].dis_workfile_path, "mkdir_ref")

make_parent_dirs_if_nonexist(path) == dirs \cup {get_dir_without_last_slash(path)}

Mkdir(at, path, next) ==
    /\ pc = at
    /\ dirs' = make_parent_dirs_if_nonexist(path)
    /\ Did(at)
    /\ pc' = next
    /\ UNCHANGED <<cfgVars, results, idx, acc, exc, logs, wf, srcs, pend, runNo,
                   prev, cntVars, cache, stagingFailed>>

MkdirRef == Mkdir("mkdir_ref", assets[idx].ref_workfile_path, "mkdir_dis")
MkdirDis == Mkdir("mkdir_dis", assets[idx].dis_workfile_path, "open_ref")

\* fifo mode: Process(...).start(); copy mode: _open_*_workfile(asset, False),
\* whose "cp src dst &" returns at once and copies in the background
Open(at, path, next) ==
    /\ pc = at
    /\ pend' = IF fifo_mode
               THEN [pend EXCEPT ![path].mk = @ + 1]
               ELSE [pend EXCEPT ![path].cp = @ + 1]
    /\ stagings' = stagings + 1
    /\ Did(at)
    /\ pc' = next
    /\ UNCHANGED <<cfgVars, results, idx, acc, exc, fsVars, runNo, prev,
                   headerWrites, invocations, cache, stagingFailed>>

OpenRef == Open("open_ref", assets[idx].ref_workfile_path, "open_dis")

OpenDisThenUnstage ==
    Open("open_dis", assets[idx].dis_workfile_path, "close_ref_post")

OpenDis == Open("open_dis", assets[idx].dis_workfile_path, "gen_touch")

\* _run_and_generate_log_file (lines 84-98): parent dirs and truncating open
\* the same with the file opened for appending only
GenTouchNoTruncate ==
    /\ pc = "gen_touch"
    /\ LET path == LogPathOf(assets[idx]) IN
       /\ dirs' = make_parent_dirs_if_nonexist(path)
       /\ logs' = [logs EXCEPT ![path] = File(logs[path].content)]
    /\ invocations' = invocations + 1
    /\ Did("gen_touch")
    /\ pc' = "gen_header" /\ exc' = exc
    /\ UNCHANGED <<cfgVars, results, idx, acc, wf, srcs, pend, runNo, prev,
                   stagings, headerWrites, cache, stagingFailed>>

\* open(log_file_path, 'wt') needs the directory that line 89 has made
GenTouch ==
    /\ pc = "gen_touch"
    /\ LET path == LogPathOf(assets[idx]) IN
       /\ dirs' = make_parent_dirs_if_nonexist(path)
       /\ IF get_dir_without_last_slash(path) \in dirs'
          THEN /\ logs' = [logs EXCEPT ![path] = File(<<>>)]
               /\ pc' = "gen_header" /\ exc' = exc
          ELSE /\ logs' = logs
               /\ pc' = "raised" /\ exc' = "IOError"
    /\ invocations' = invocations + 1
    /\ Did("gen_touch")
    /\ UNCHANGED <<cfgVars, results, idx, acc, wf, srcs, pend, runNo, prev,
                   stagings, headerWrites, cache, stagingFailed>>

\* ... and the appended header line; then line 142
GenHeader ==
    /\ pc = "gen_header"
    /\ LET path == LogPathOf(assets[idx]) IN
       logs' = [logs EXCEPT ![path] =
                    File(logs[path].content \o Header(TYPE, VERSION))]
    /\ headerWrites' = headerWrites + 1
    /\ Did("gen_header")
    /\ IF delete_workdir
       THEN pc' = "close_ref_post" /\ idx' = idx
       ELSE Return
    /\ UNCHANGED <<cfgVars, results, acc, exc, wf, dirs, srcs, pend, runNo, prev,
                   stagings, invocations, cache, stagingFailed>>

CloseRefPost == Close("close_ref_post", assets[idx].ref_workfile_path, "close_dis_post")
CloseDisPost == Close("close_dis_post", assets[idx].dis_workfile_path, "rmdir_ref")

\* os.rmdir: 0 on success, else the errno of the OSError
rmdir_errno(d) ==
    IF d \notin dirs THEN 2 ELSE IF ~DirEmpty(d) THEN 39 ELSE 0

rmdir(d) == IF rmdir_errno(d) = 0 THEN dirs \ {d} ELSE dirs

\* line 148: os.rmdir(ref_dir), unguarded
RmdirRef ==
    /\ pc = "rmdir_ref"
    /\ LET d == get_dir_without_last_slash(assets[idx].ref_workfile_path) IN
       /\ dirs' = rmdir(d)
       /\ IF rmdir_errno(d) = 0
          THEN pc' = "rmdir_dis" /\ exc' = exc
          ELSE pc' = "raised" /\ exc' = "OSError"
    /\ Did("rmdir_ref")
    /\ UNCHANGED <<cfgVars, results, idx, acc, logs, wf, srcs, pend, runNo, prev,
                   cntVars, cache, stagingFailed>>

\* the same with every errno other than 2 re-raised
RmdirDisReraise ==
    /\ pc = "rmdir_dis"
    /\ LET d == get_dir_without_last_slash(assets[idx].dis_workfile_path) IN
       /\ dirs' = rmdir(d)
       /\ IF rmdir_errno(d) \in {0, 2}
          THEN Return /\ exc' = exc
          ELSE pc' = "raised" /\ exc' = "OSError" /\ idx' = idx
    /\ Did("rmdir_dis")
    /\ UNCHANGED <<cfgVars, results, acc, logs, wf, srcs, pend, runNo, prev,
                   cntVars, cache, stagingFailed>>

\* lines 149-154: the except clause ends without re-raising for any errno
RmdirDis ==
    /\ pc = "rmdir_dis"
    /\ LET d == get_dir_without_last_slash(assets[idx].dis_workfile_path) IN
       dirs' = rmdir(d)
    /\ Did("rmdir_dis")
    /\ Return
    /\ UNCHANGED <<cfgVars, results, acc, exc, logs, wf, srcs, pend, runNo, prev,
                   cntVars, cache, stagingFailed>>

\* ------------------------------------------------------------------------
\* second map of run(): results = map(self._read_result, self.assets)
\* ------------------------------------------------------------------------
collect_reversed(list, r) == <<r>> \o list

collect(list, r) == Append(list, r)

ReadResult ==
    /\ pc = "read"
    /\ IF isfile(LogPathOf(assets[idx]))
       THEN /\ acc' = collect(acc, read_result(assets[idx]))
            /\ exc' = exc
            /\ IF idx < Len(assets)
               THEN pc' = "read" /\ idx' = idx + 1
               ELSE pc' = "assign" /\ idx' = idx
       ELSE /\ pc' = "raised" /\ exc' = "IOError"
            /\ UNCHANGED <<acc, idx>>
    /\ UNCHANGED <<cfgVars, results, fsVars, pend, runNo, prev, cntVars, ops,
                   cache, stagingFailed>>

Assign ==
    /\ pc = "assign"
    /\ results' = acc
    /\ pc' = "done"
    /\ UNCHANGED <<cfgVars, idx, acc, exc, fsVars, pend, runNo, prev, cntVars,
                   ops, cache, stagingFailed>>

\* ------------------------------------------------------------------------
\* producer processes and background copies
\* ------------------------------------------------------------------------
\* _open_ref_workfile / _open_dis_workfile in a child process: os.mkfifo(dst),
\* then _open_file launches the copy; an OSError ends the child only
Mkfifo(p) ==
    /\ pend[p].mk > 0
    /\ IF get_dir_without_last_slash(p) \in dirs /\ ~exists(p)
       THEN /\ wf' = [wf EXCEPT ![p] = "fifo"]
            /\ pend' = [pend EXCEPT ![p].mk = @ - 1, ![p].cp = @ + 1]
            /\ UNCHANGED stagingFailed
       ELSE /\ pend' = [pend EXCEPT ![p].mk = @ - 1]
            /\ stagingFailed' = stagingFailed \cup {p}
            /\ UNCHANGED wf
    /\ UNCHANGED <<cfgVars, results, pc, idx, acc, exc, logs, dirs, srcs, runNo,
                   prev, cntVars, ops, cache>>

\* the shell's "cp src dst": creates dst as a regular file when it is absent,
\* writes into it (file or pipe) when it is there; its exit status is lost
Cp(p) ==
    /\ pend[p].cp > 0
    /\ pend' = [pend EXCEPT ![p].cp = @ - 1]
    /\ IF SrcOf(p) \in srcs /\ get_dir_without_last_slash(p) \in dirs
       THEN /\ wf' = [wf EXCEPT ![p] = IF exists(p) THEN @ ELSE "file"]
            /\ UNCHANGED stagingFailed
       ELSE /\ stagingFailed' = stagingFailed \cup {p}
            /\ UNCHANGED wf
    /\ UNCHANGED <<cfgVars, results, pc, idx, acc, exc, logs, dirs, srcs, runNo,
                   prev, cntVars, ops, cache>>

Producer == \E p \in WorkPaths : Mkfifo(p)
Copy == \E p \in WorkPaths : Cp(p)

Next ==
    \/ AssertAssets \/ NewExecutor \/ Run
    \/ AssertAnAsset \/ IsFile
    \/ CloseRefPre \/ CloseDisPre \/ MkdirRef \/ MkdirDis
    \/ OpenRef \/ OpenDis
    \/ GenTouch \/ GenHeader
    \/ CloseRefPost \/ CloseDisPost \/ RmdirRef \/ RmdirDis
    \/ ReadResult \/ Assign
    \/ Producer \/ Copy

Spec == Init /\ [][Next]_vars

\* ------------------------------------------------------------------------
\* Unstaging on its own: _close_ref_workfile / _close_dis_workfile
\* (lines 212-222) called twice in a row by processes that work on the same
\* asset; os.path.exists and os.remove are two system calls.
\* ------------------------------------------------------------------------
Callers == {"executor", "sibling"}

\* the calls each caller makes, in order
CloseCalls == <<"ref", "dis", "ref", "dis">>

CallPath(k) == IF CloseCalls[k] = "ref"
               THEN assets[1].ref_workfile_path
               ELSE assets[1].dis_workfile_path

InitUnstage ==
    /\ assets \in [1..1 -> Catalog]
    /\ TYPE \in Types /\ VERSION = "v1"
    /\ fifo_mode \in BOOLEAN /\ delete_workdir = TRUE
    /\ results = <<>>
    /\ pc = "ready" /\ idx = 0 /\ acc = <<>> /\ exc = "none"
    /\ logs = [p \in LogPaths |-> NoFile]
    /\ \E r, d \in {Absent, "file", "fifo"} :
           wf = [q \in WorkPaths |->
                     IF q = assets[1].ref_workfile_path THEN r
                     ELSE IF q = assets[1].dis_workfile_path THEN d
                     ELSE Absent]
    /\ dirs = {get_dir_without_last_slash(q) : q \in {w \in WorkPaths : exists(w)}}
    /\ srcs = SourceFiles
    /\ pend = NoPending
    /\ runNo = 0
    /\ prev = [completed |-> FALSE, type |-> TYPE, version |-> VERSION,
               invocations |-> 0, exc |-> "none", idx |-> 0]
    /\ stagings = 0 /\ headerWrites = 0 /\ invocations = 0
    /\ FreshHistory(assets)
    /\ stagingFailed = {}
    /\ cpc = [c \in Callers |-> <<1, "exists">>]
    /\ cexc = [c \in Callers |-> "none"]

unstageFrame == <<assets, TYPE, VERSION, fifo_mode, delete_workdir, results,
                  pc, idx, acc, exc, logs, dirs, srcs, pend, runNo, prev,
                  stagings, headerWrites, invocations, ops, cache,
                  stagingFailed>>

\* line 215 / 221: if os.path.exists(path)
PathExists(c) ==
    /\ cpc[c][1] <= Len(CloseCalls)
    /\ cpc[c][2] = "exists"
    /\ cpc' = [cpc EXCEPT ![c] = IF exists(CallPath(cpc[c][1]))
                                 THEN <<cpc[c][1], "remove">>
                                 ELSE <<cpc[c][1] + 1, "exists">>]
    /\ UNCHANGED <<unstageFrame, wf, cexc>>

\* line 216 / 222: os.remove(path) raises OSError when the path is gone
OsRemove(c) ==
    /\ cpc[c][2] = "remove"
    /\ IF exists(CallPath(cpc[c][1]))
       THEN /\ wf' = [wf EXCEPT ![CallPath(cpc[c][1])] = Absent]
            /\ cpc' = [cpc EXCEPT ![c] = <<cpc[c][1] + 1, "exists">>]
            /\ cexc' = cexc
       ELSE /\ cpc' = [cpc EXCEPT ![c] = <<cpc[c][1], "raised">>]
            /\ cexc' = [cexc EXCEPT ![c] = "OSError"]
            /\ wf' = wf
    /\ UNCHANGED unstageFrame

CheckStep == \E c \in Callers : PathExists(c)
RemoveStep == \E c \in Callers : OsRemove(c)

NextUnstage == CheckStep \/ RemoveStep

SpecUnstage == InitUnstage /\ [][NextUnstage]_vars

\* ========================================================================
\* Claims
\* ========================================================================
HasDuplicateIdentity ==
    \E i, j \in 1..Len(assets) :
        i # j /\ asset_str(assets[i]) = asset_str(assets[j])

LogOf(i) == logs[LogPathOf(assets[i])]

\* C1: a completed run() over a batch with pairwise-distinct identities
\* leaves exactly one Result per input asset, the i-th Result being the one
\* derived from the (existing) log of the i-th input asset.
C1_OneResultPerAssetInOrder ==
    (pc = "done" /\ ~HasDuplicateIdentity) =>
        /\ Len(results) = Len(assets)
        /\ \A i \in 1..Len(assets) :
               /\ results[i].asset = asset_str(assets[i])
               /\ LogOf(i).exists
               /\ results[i].log = LogOf(i)

C1_Witness ==
    /\ pc = "done" /\ runNo = 1 /\ Len(assets) = 2
    /\ results[1].asset # results[2].asset
    /\ \E i \in 1..2 : cache[i].state = "miss"

\* C2: a run() that follows a completed run() over the same assets, with the
\* same TYPE and VERSION, takes the cache-hit branch for every asset: no
\* staging, no header write, no log generation.
C2_SecondRunFullCacheHit ==
    (runNo >= 2 /\ prev.completed /\ prev.type = TYPE
        /\ prev.version = VERSION /\ pc \notin {"init_assert", "ready"}) =>
        /\ stagings = 0 /\ headerWrites = 0 /\ invocations = 0
        /\ \A i \in 1..Len(assets) : cache[i].state \in {"unchecked", "hit"}
        /\ pc # "raised"

C2_Witness ==
    /\ runNo = 2 /\ prev.completed /\ prev.type = TYPE
    /\ prev.version = VERSION /\ prev.invocations = 2
    /\ pc = "done" /\ invocations = 0
    /\ \A i \in 1..Len(assets) : cache[i].state = "hit"

\* C3 (as claimed): with the same TYPE and log directory but another VERSION
\* the log path of an asset differs, so the run of the new version takes the
\* cache-miss branch for every asset although the old version's logs exist.
C3_NewVersionAlwaysMisses ==
    (runNo >= 2 /\ prev.completed /\ prev.type = TYPE
        /\ prev.invocations = Len(assets)
        /\ prev.version # VERSION /\ pc = "done") =>
        \A i \in 1..Len(assets) :
            /\ get_log_file_path(LogFileDir, TYPE, prev.version, assets[i])
                 # get_log_file_path(LogFileDir, TYPE, VERSION, assets[i])
            /\ cache[i].state = "miss"
            /\ invocations = Len(assets)

\* C4 (as claimed): in fifo mode both named pipes exist when the parent
\* begins _run_and_generate_log_file for the asset.
C4_BothPipesExistAtInvocation ==
    (fifo_mode /\ pc = "gen_touch") =>
        /\ wf[assets[idx].ref_workfile_path] = "fifo"
        /\ wf[assets[idx].dis_workfile_path] = "fifo"

\* C5 (as claimed): fifo_mode and delete_workdir, unique identities, no
\* pre-existing logs: when run() returns every log exists, no workfile path
\* of any asset exists and the Results are in input order.
C5_FifoDeleteLeavesNoWorkfiles ==
    (fifo_mode /\ delete_workdir /\ pc = "done" /\ runNo = 1
        /\ \A i \in 1..Len(assets) : cache[i].state = "miss") =>
        \A i \in 1..Len(assets) :
            /\ LogOf(i).exists
            /\ ~exists(assets[i].ref_workfile_path)
            /\ ~exists(assets[i].dis_workfile_path)
            /\ results[i].asset = asset_str(assets[i])

\* C6: an asset whose log exists at the cache check gets no workfile removal,
\* no directory creation, no staging, no log generation and no directory
\* removal; its log keeps its content and run() derives its Result from it.
C6_CacheHitTouchesNothing ==
    \A i \in 1..Len(assets) :
        cache[i].state = "hit" =>
            /\ ops[i] = {}
            /\ LogOf(i) = File(cache[i].content)
            /\ (pc = "done" => results[i].log = File(cache[i].content))

C6_Witness ==
    /\ pc = "done" /\ runNo = 1 /\ Len(assets) = 2
    /\ cache[1].state = "hit" /\ cache[2].state = "miss"
    /\ results[1].log = File(OldLog)

\* C7: a batch with a repeated identity triple is rejected by __init__ with
\* an AssertionError; run() never starts, nothing is staged, written or
\* removed and _run_and_generate_log_file is called zero times.
C7_DuplicatesRejectedBeforeWork ==
    /\ [](HasDuplicateIdentity =>
            /\ pc \in {"init_assert", "rejected"}
            /\ (pc = "rejected" => exc = "AssertionError")
            /\ runNo = 0
            /\ stagings = 0 /\ headerWrites = 0 /\ invocations = 0
            /\ pend = NoPending)
    /\ [][HasDuplicateIdentity => UNCHANGED <<logs, wf, dirs, results>>]_vars

C7_Witness ==
    /\ pc = "rejected" /\ exc = "AssertionError"
    /\ Len(assets) = 2 /\ assets[1] = assets[2]

\* C8 (as claimed): the unstaging calls never raise, also when another
\* process removes the path between the existence check and the removal.
C8_UnstageNeverRaises ==
    \A c \in Callers : cexc[c] = "none"

\* C9 (as claimed): a staging failure of an asset (copy of a missing source,
\* or failed pipe creation) aborts its processing before the header is
\* written: when run() has ended no log file exists at the asset's path.
C9_StagingFailureLeavesNoLog ==
    \A i \in 1..Len(assets) :
        (pc \in {"done", "raised"} /\ cache[i].state = "miss"
            /\ stagingFailed \cap {assets[i].ref_workfile_path,
                                   assets[i].dis_workfile_path} # {}) =>
            ~LogOf(i).exists

\* C10 (as claimed): a shape violation fails only its own asset; run() goes
\* on, so every later asset of the batch still has its log ensured.
C10_ShapeFailureIsolated ==
    (pc = "raised" /\ exc = "AssertionError") =>
        \A j \in (idx + 1)..Len(assets) :
            assert_an_asset(assets[j]) => LogOf(j).exists

\* labels of the first map of run(): the per-asset wrapper
WrapperLabels ==
    {"assert", "isfile", "close_ref_pre", "close_dis_pre", "mkdir_ref",
     "mkdir_dis", "open_ref", "open_dis", "gen_touch", "gen_header",
     "close_ref_post", "close_dis_post", "rmdir_ref", "rmdir_dis"}

\* C11: run() is two full passes: no Result is derived while the wrapper is
\* still at work on some asset, and whenever a Result is derived every
\* asset of the batch has been through the wrapper, its log exists and is
\* complete (the old content on a hit, the header on a miss).
C11_TwoFullPasses ==
    /\ pc \in WrapperLabels => acc = <<>>
    /\ pc \in {"read", "assign"} =>
           \A i \in 1..Len(assets) :
               /\ cache[i].state \in {"hit", "miss"}
               /\ LogOf(i).exists
               /\ cache[i].state = "hit" => LogOf(i) = File(cache[i].content)
               /\ cache[i].state = "miss" => LogOf(i) = File(Header(TYPE, VERSION))

C11_Witness ==
    /\ pc = "read" /\ idx = 2 /\ Len(acc) = 1 /\ Len(assets) = 2
    /\ cache[1].state = "miss" /\ cache[2].state = "miss"

\* the wrapper's steps on a cache miss, by what they do
StaleRemoval == {"close_ref_pre", "close_dis_pre"}
Staging == {"open_ref", "open_dis"}
LogGeneration == {"gen_touch", "gen_header"}
Unstaging == {"close_ref_post", "close_dis_post"}

\* the step the parent takes for the current asset in this transition
StepTaken == IF pc \in WrapperLabels THEN ops'[idx] \ ops[idx] ELSE {}

\* C12: on a cache miss the parent removes stale workfiles, then stages,
\* then generates the log, then (only with delete_workdir, and only after
\* log generation has returned) removes the workfiles: no stale removal
\* once staging has begun, no unstaging before log generation is over; and
\* workfiles are removed, producers started and logs written by these steps
\* only.
C12_MissStepsInOrder ==
    [][/\ \A n \in StepTaken :
              /\ n \in StaleRemoval =>
                     ops[idx] \cap (Staging \cup LogGeneration \cup Unstaging) = {}
              /\ n \in Staging =>
                     /\ StaleRemoval \subseteq ops[idx]
                     /\ ops[idx] \cap (LogGeneration \cup Unstaging) = {}
              /\ n \in LogGeneration =>
                     /\ (StaleRemoval \cup Staging) \subseteq ops[idx]
                     /\ ops[idx] \cap Unstaging = {}
              /\ n \in Unstaging =>
                     /\ delete_workdir
                     /\ (StaleRemoval \cup Staging \cup LogGeneration)
                            \subseteq ops[idx]
                     /\ logs[LogPathOf(assets[idx])] = File(Header(TYPE, VERSION))
       /\ (\E p \in WorkPaths : exists(p) /\ wf'[p] = Absent) =>
              StepTaken \cap (StaleRemoval \cup Unstaging) # {}
       /\ (\E p \in WorkPaths : pend'[p].mk + pend'[p].cp > pend[p].mk + pend[p].cp) =>
              StepTaken \cap Staging # {}
       /\ logs' # logs => StepTaken \cap LogGeneration # {}
      ]_vars

C12_Witness ==
    /\ pc = "rmdir_ref" /\ delete_workdir
    /\ (StaleRemoval \cup Staging \cup LogGeneration \cup Unstaging)
           \subseteq ops[idx]

\* ------------------------------------------------------------------------
\* _run_and_generate_log_file (lines 84-98) called on its own, whatever the
\* log path holds; cache[1] records what the path held before the call.
\* ------------------------------------------------------------------------
Garbage == <<<<"garbage">>>>

InitGen ==
    /\ assets \in [1..1 -> Catalog]
    /\ TYPE \in Types /\ VERSION \in Versions
    /\ fifo_mode \in BOOLEAN /\ delete_workdir \in BOOLEAN
    /\ results = <<>>
    /\ pc = "gen_touch" /\ idx = 1 /\ acc = <<>> /\ exc = "none"
    /\ \E before \in {NoFile, File(<<>>), File(OldLog), File(Garbage)} :
           /\ logs = [p \in LogPaths |->
                          IF p = LogPathOf(assets[1]) THEN before ELSE NoFile]
           /\ cache = <<[state |-> IF before.exists THEN "hit" ELSE "miss",
                         content |-> before.content]>>
           /\ \E made \in BOOLEAN :
                  dirs = IF made \/ before.exists
                         THEN {get_dir_without_last_slash(LogPathOf(assets[1]))}
                         ELSE {}
    /\ wf = [q \in WorkPaths |-> Absent]
    /\ srcs = SourceFiles
    /\ pend = NoPending
    /\ runNo = 1
    /\ prev = [completed |-> FALSE, type |-> TYPE, version |-> VERSION,
               invocations |-> 0, exc |-> "none", idx |-> 0]
    /\ stagings = 0 /\ headerWrites = 0 /\ invocations = 0
    /\ ops = <<{}>>
    /\ stagingFailed = {}
    /\ cpc = <<>> /\ cexc = <<>>

NextGen == GenTouch \/ GenHeader

SpecGen == InitGen /\ [][NextGen]_vars

\* C13: writing the header starts clean: whatever the log path held before,
\* the call does not fail, the parent directory exists from the moment the
\* file is opened, the file is empty after the truncating open, and once the
\* call has returned the content is exactly "{TYPE} VERSION {VERSION}" and
\* one blank line.
C13_HeaderStartsClean ==
    /\ pc # "raised"
    /\ "gen_touch" \in ops[1] =>
           /\ get_dir_without_last_slash(LogPathOf(assets[1])) \in dirs
           /\ LogOf(1).exists
    /\ pc = "gen_header" => LogOf(1) = File(<<>>)
    /\ "gen_header" \in ops[1] =>
           LogOf(1) = File(<<<<TYPE, "VERSION", VERSION>>, <<>>>>)

C13_Witness ==
    /\ "gen_header" \in ops[1]
    /\ cache[1].content = OldLog /\ VERSION = "v2"
    /\ LogOf(1).content = <<<<"T", "VERSION", "v2">>, <<>>>>

\* C14 (as claimed): with delete_workdir the cleanup block of the wrapper
\* never raises, whether or not the two workfiles share a directory, on
\* every interleaving with the fifo-mode producer processes.
C14_CleanupNeverRaises ==
    \A i \in 1..Len(assets) :
        (fifo_mode /\ delete_workdir /\ "close_ref_post" \in ops[i] /\ idx = i) =>
            ~(pc = "raised" /\ exc = "OSError")

\* C15 (as claimed): one asset's ensure-log sequence, the pipe creation and
\* copy start of its producers included, is over before the next asset
\* begins: in fifo mode, while the parent works on asset idx, every
\* producer step (os.mkfifo, cp) is on a workfile path of asset idx.
C15_SequentialAcrossAssets ==
    [][\A p \in WorkPaths :
           (fifo_mode /\ runNo = 1 /\ pc \in WrapperLabels /\ pc' = pc
                /\ pend'[p] # pend[p]) =>
               p \in {assets[idx].ref_workfile_path,
                      assets[idx].dis_workfile_path}
      ]_vars

\* ------------------------------------------------------------------------
\* The parent process is interrupted (killed, KeyboardInterrupt) inside
\* _run_and_generate_log_file after the truncating open of line 92; the
\* header write of lines 96-98 has either not happened or is on disk.
\* ------------------------------------------------------------------------
Interrupt ==
    /\ pc = "gen_header"
    /\ \E written \in BOOLEAN :
           LET path == LogPathOf(assets[idx]) IN
           logs' = IF written
                   THEN [logs EXCEPT ![path] =
                             File(logs[path].content \o Header(TYPE, VERSION))]
                   ELSE logs
    /\ pc' = "raised" /\ exc' = "Interrupted"
    /\ UNCHANGED <<cfgVars, results, idx, acc, wf, dirs, srcs, pend, runNo,
                   prev, cntVars, ops, cache, stagingFailed>>

NextCrash == Next \/ Interrupt

SpecCrash == Init /\ [][NextCrash]_vars

\* C16: when an asset's processing is interrupted after the log file has
\* been created and before log generation has finished, the log file stays
\* on disk (empty or header only), and the next run() of the same TYPE
\* takes the cache-hit branch for that asset: no step of the miss branch,
\* no log generation.
C16_InterruptedLogCountsAsCached ==
    /\ exc = "Interrupted" =>
           /\ pc = "raised"
           /\ LogOf(idx).exists
           /\ LogOf(idx).content \in {<<>>, <<<<TYPE, "VERSION", VERSION>>, <<>>>>}
    /\ (prev.exc = "Interrupted" /\ prev.type = TYPE) =>
           /\ LogOf(prev.idx).exists
           /\ pc \notin {"init_assert", "ready"} =>
                  /\ cache[prev.idx].state \in {"unchecked", "hit"}
                  /\ ops[prev.idx] = {}

C16_Witness ==
    /\ runNo = 2 /\ prev.exc = "Interrupted" /\ pc = "done"
    /\ cache[prev.idx] = [state |-> "hit", content |-> <<>>]
    /\ results[prev.idx].log = File(<<>>)

ShapeMismatch(asset) ==
    \/ asset.quality_width_height # asset.ref_width_height
    \/ asset.quality_width_height # asset.dis_width_height
    \/ asset.ref_width_height # asset.dis_width_height

\* C17: the shape check comes before the cache check: an asset whose three
\* width/height pairs are not all equal stops run() with an AssertionError
\* whether its log exists or not; the cache check is never made for it, no
\* wrapper step is taken for it, its workfile paths and their directories
\* stay absent and its log stays as it was (absent, or the old content).
C17_ShapeCheckBeforeCacheCheck ==
    \A i \in 1..Len(assets) :
        ShapeMismatch(assets[i]) =>
            /\ ops[i] = {}
            /\ cache[i].state = "unchecked"
            /\ LogOf(i) \in {NoFile, File(OldLog)}
            /\ ~exists(assets[i].ref_workfile_path)
            /\ ~exists(assets[i].dis_workfile_path)
            /\ get_dir_without_last_slash(assets[i].ref_workfile_path) \notin dirs
            /\ get_dir_without_last_slash(assets[i].dis_workfile_path) \notin dirs
            /\ pc \notin {"read", "assign", "done"}
            /\ (pc \in WrapperLabels \cup {"raised"} /\ idx = i) =>
                   pc \in {"assert", "raised"}
            /\ (pc = "raised" /\ idx = i) => exc = "AssertionError"

C17_Witness ==
    /\ pc = "raised" /\ exc = "AssertionError" /\ idx = 2
    /\ ShapeMismatch(assets[2])
    /\ LogOf(2) = File(OldLog)
    /\ cache[1].state = "miss"

\* C18: within run() a log file is never removed, and a log file changes
\* (is created, truncated or appended to) only while the parent works on an
\* asset whose log did not exist at that asset's cache check; a log that
\* exists at its asset's check has the same content when run() returns.
C18_LogsMonotonic ==
    /\ [][\A p \in LogPaths :
              /\ logs[p].exists => logs'[p].exists
              /\ logs'[p] # logs[p] =>
                     /\ pc \in LogGeneration
                     /\ p = LogPathOf(assets[idx])
                     /\ cache[idx].state = "miss"
         ]_vars
    /\ [](pc = "done" =>
             \A i \in 1..Len(assets) :
                 cache[i].state = "hit" => LogOf(i).content = cache[i].content)

C18_Witness ==
    /\ runNo = 2 /\ pc = "done" /\ VERSION = "v2" /\ Len(assets) = 2
    /\ \A i \in 1..2 :
           /\ cache[i] = [state |-> "hit", content |-> Header("T", "v1")]
           /\ LogOf(i) = File(Header("T", "v1"))

RefDir == get_dir_without_last_slash(assets[idx].ref_workfile_path)
DisDir == get_dir_without_last_slash(assets[idx].dis_workfile_path)

\* C19: the two directory removals of the cleanup block differ: when
\* os.rmdir(ref_dir) fails (directory missing or not empty) the OSError
\* leaves run(), which stops there; when os.rmdir(dis_dir) fails, for
\* whatever reason, nothing is raised and the parent goes on with the next
\* asset or the second map.
C19_RmdirAsymmetry ==
    [][/\ (pc = "rmdir_ref" /\ pc' # pc) =>
              IF RefDir \in dirs /\ DirEmpty(RefDir)
              THEN pc' = "rmdir_dis" /\ exc' = exc /\ dirs' = dirs \ {RefDir}
              ELSE pc' = "raised" /\ exc' = "OSError" /\ dirs' = dirs
       /\ (pc = "rmdir_dis" /\ pc' # pc) =>
              /\ pc' \in {"assert", "read"}
              /\ exc' = "none"
              /\ dirs' = IF DisDir \in dirs /\ DirEmpty(DisDir)
                         THEN dirs \ {DisDir} ELSE dirs
       /\ (pc = "raised" /\ exc = "OSError") => (pc' = pc => logs' = logs)
      ]_vars

\* the suppressed error was "directory not empty"
C19_Witness ==
    /\ pc = "done" /\ runNo = 1 /\ Len(assets) = 1 /\ delete_workdir
    /\ "rmdir_dis" \in ops[1]
    /\ get_dir_without_last_slash(assets[1].dis_workfile_path) \in dirs
    /\ exists(assets[1].dis_workfile_path)

====
